---- MODULE Spec2Model ----
(***************************************************************************)
(* Orchestration core of the biocatalysis assistant (lmabc):               *)
(*   - the tool registry built by BiocatalysisAssistant.__init__,          *)
(*   - the output parser CustomJSONAssistantOutputParser,                  *)
(*   - the agent loop run by the AgentExecutor that create_agent returns,  *)
(*   - the Streamlit app (app/core.py) and the command line (cli.py),      *)
(*   - MDSimulation._run and Mutagenesis.check_requirements.               *)
(***************************************************************************)
EXTENDS Integers, Sequences, FiniteSets, TLC

VARIABLES
    given,              \* whether tool_names was given to __init__ (is not None)
    requested,          \* tool_names of __init__ once the default is filled in
    behaviour,          \* what the tool class does at each attempt (environment)
    idx,                \* position of the for loop of __init__
    tool_list,          \* self.tool_list
    successful_tools,   \* local list of __init__
    failed_tools,       \* local list of __init__
    log,                \* records written through logger by the build
    returned,           \* what the last call returned, when it was a getter
    phase,              \* where the session is
    agent,              \* the AgentExecutor made by initiate_agent, or None
    intermediate_steps, \* the executor's (action, observation) pairs of the turn
    iterations,         \* the executor's iteration counter of the turn
    response,           \* what agent.invoke returned for the turn, or None
    exc,                \* the exception that left the running call, or None
    turns,              \* calls of agent.invoke made so far
    last_run,           \* the tool run by the last pass and what its _run did
    text,               \* the model text last handed to parse
    parsed,             \* what parse returned for text, or None
    use_memory,         \* self.use_memory
    input,              \* the user input of the running or last turn
    prompt,             \* what the agent's last call of the model was given, or None
    completed,          \* the turns of the agent that returned, oldest first
    calls,              \* calls of the model made in the running or last turn
    session_state,      \* st.session_state of the Streamlit app, with its agents
    cli,                \* the run of cli.main: its position, locals and output
    md,                 \* the run of MDSimulation._run: its stages and files
    env                 \* the paths and modules Mutagenesis.check_requirements finds

vars == <<given, requested, behaviour, idx, tool_list, successful_tools, failed_tools,
          log, returned, phase, agent, intermediate_steps, iterations, response, exc,
          turns, last_run, text, parsed, use_memory, input, prompt, completed,
          calls, session_state, cli, md, env>>

registryVars == <<given, requested, behaviour, idx, tool_list, successful_tools,
                  failed_tools, log, returned, use_memory>>
loopVars == <<agent, intermediate_steps, iterations, response, exc, turns,
             last_run, input, prompt, completed, calls>>
parseVars == <<text, parsed>>
otherVars == <<session_state, cli, md, env>>

None == [none |-> TRUE]

(***************************************************************************)
(* Bounds                                                                  *)
(***************************************************************************)
MaxRequested == 2       \* longest tool_names sequence tried
MaxTurns == 2           \* calls of agent.invoke per conversation
MaxWrap == 2            \* longest wrapper put before / after an action object
MaxFree == 2            \* longest free-form model text
MaxScriptRuns == 4      \* runs of the app's script after the first one
MaxStages == 3          \* longest stages argument of MDSimulation._run
MaxLines == 4           \* lines the user types into the CLI

(***************************************************************************)
(* The catalog                                                             *)
(***************************************************************************)
\* list(TOOL_FACTORY.keys()): the names of the catalog in the order of the
\* dictionary.
TOOL_FACTORY_keys ==
    <<"ExtractBindingSites", "GetElementsOfReaction", "Blastp",
      "OptimizeEnzymeSequences", "FindPDBStructure", "DownloadPDBStructure",
      "Mutagenesis", "MDSimulation">>

TOOL_FACTORY == {TOOL_FACTORY_keys[n] : n \in 1..Len(TOOL_FACTORY_keys)}

\* The names the requests of several names are drawn from: two catalog
\* names and one that is not in the catalog.
RequestNames == {"FindPDBStructure", "MDSimulation", "Unknown"}

\* What a tool class can do when safe_tool_instantiation is called on it.
\* The readiness check of FindPDBStructure catches what goes wrong and answers
\* False; the one of MDSimulation answers False or raises again;
\* GetElementsOfReaction inherits the check of the base class, which answers
\* True, and has no constructor of its own.
Behaviours(name) ==
    CASE name = "FindPDBStructure" -> {"ok", "requirements_not_met", "constructor_raises"}
      [] name = "MDSimulation"     -> {"ok", "requirements_not_met", "check_raises"}
      [] name = "GetElementsOfReaction" -> {"ok"}
      [] name \in {"ExtractBindingSites", "Blastp", "OptimizeEnzymeSequences",
                   "DownloadPDBStructure", "Mutagenesis"}
                                   -> {"ok", "requirements_not_met"}
      [] OTHER                     -> {"unknown"}

\* What the classes do when every name of the catalog is tried.
DefaultBehaviours ==
    {[n \in 1..Len(TOOL_FACTORY_keys) |-> "ok"],
     <<"requirements_not_met", "ok", "ok", "requirements_not_met",
       "constructor_raises", "ok", "requirements_not_met", "check_raises">>}

\* tool_names = list(TOOL_FACTORY.keys()) if tool_names is None else tool_names
effective_tool_names(is_given, names) ==
    IF is_given THEN names ELSE TOOL_FACTORY_keys

RECURSIVE SeqsUpTo(_, _)
SeqsUpTo(S, n) ==
    IF n = 0 THEN {<<>>}
    ELSE LET shorter == SeqsUpTo(S, n - 1)
         IN  shorter \cup {Append(s, x) : s \in {t \in shorter : Len(t) = n - 1}, x \in S}

(***************************************************************************)
(* tools/core.py                                                           *)
(***************************************************************************)
\* A readiness check that never answers True.
check_requirements_never(b) == "False"

\* A readiness check that answers True where the real one raises.
check_requirements_true_for_raise(b) ==
    IF b = "requirements_not_met" THEN "False" ELSE "True"

\* cls.check_requirements(): TRUE, FALSE, or "raise" when the check raises.
check_requirements(b) ==
    CASE b = "requirements_not_met" -> "False"
      [] b = "check_raises"         -> "raise"
      [] OTHER                      -> "True"

\* cls(**kwargs): the instance, or "raise".
construct(name, b, i) ==
    IF b = "constructor_raises" THEN [raise |-> TRUE]
    ELSE [name |-> name, id |-> i]

safe_tool_instantiation_nocheck(name, b, i) ==
    IF construct(name, b, i) = [raise |-> TRUE] THEN None
    ELSE construct(name, b, i)

\* try: if cls.check_requirements(): return cls() else: return None
\* except Exception: return None
safe_tool_instantiation(name, b, i) ==
    IF check_requirements(b) = "raise" THEN None
    ELSE IF check_requirements(b) = "True"
         THEN IF construct(name, b, i) = [raise |-> TRUE] THEN None
              ELSE construct(name, b, i)
         ELSE None

(***************************************************************************)
(* tools/mutagenesis.py: Mutagenesis.check_requirements                    *)
(*                                                                         *)
(* A path "exists", is "missing" (and mkdir can create it), is "unwritable"*)
(* (missing, and mkdir fails) or is a "missing_file" (missing, and its     *)
(* name has a suffix).                                                     *)
(***************************************************************************)
PathStates == {"exists", "missing", "unwritable", "missing_file"}

\* The environments: paths_to_check = [output_dir, clean_pdb_dir,
\* mutated_pdb_dir] and whether "from pymol import cmd" succeeds.
MutagenesisEnvs == {[paths |-> ps, pymol |-> pm] :
                      ps \in [1..3 -> PathStates], pm \in BOOLEAN}

Checked(value, e) == [value |-> value, env |-> e]

\* The for loop of check_requirements from path i on, and the import of
\* PyMOL after it.  Every branch of the loop body returns.
RECURSIVE Mutagenesis_check_requirements(_, _)
Mutagenesis_check_requirements(e, i) ==
    IF i > Len(e.paths)
    THEN \* try: from pymol import cmd ... return True; except: return False
         Checked(e.pymol, e)
    ELSE IF e.paths[i] # "exists"
    THEN IF e.paths[i] = "missing_file"
         THEN Checked(FALSE, e)
         ELSE IF e.paths[i] = "missing"
         THEN \* mkdir(parents=True, exist_ok=True); return True
              Checked(TRUE, [e EXCEPT !.paths[i] = "exists"])
         ELSE \* mkdir raised
              Checked(FALSE, e)
    ELSE \* "already exists": return True
         Checked(TRUE, e)

\* Mutagenesis.safe_tool_instantiation(): the class has no constructor of
\* its own, so the instance is made whenever the check answers True.
Mutagenesis_safe_tool_instantiation(e) ==
    LET c == Mutagenesis_check_requirements(e, 1)
    IN  [call |-> "Mutagenesis.safe_tool_instantiation",
         check |-> c.value,
         value |-> IF c.value THEN construct("Mutagenesis", "ok", 1) ELSE None,
         env |-> c.env]

(***************************************************************************)
(* core.py: one pass of the for loop of BiocatalysisAssistant.__init__     *)
(***************************************************************************)
\* The state of __init__ as a record.
BuildState(tl, st, ft, lg, raised) ==
    [tool_list |-> tl, successful_tools |-> st, failed_tools |-> ft,
     log |-> lg, raised |-> raised]

\* The loop body without its try/except: the ValueError of an unknown name
\* leaves __init__.
loop_body_uncaught(s, name, b, i) ==
    IF name \notin TOOL_FACTORY
    THEN [s EXCEPT !.raised = TRUE]
    ELSE LET tool_instance == safe_tool_instantiation(name, b, i)
         IN  IF tool_instance # None
             THEN [s EXCEPT !.tool_list = Append(@, tool_instance),
                            !.successful_tools = Append(@, name)]
             ELSE [s EXCEPT !.failed_tools = Append(@, name),
                            !.log = Append(@, [level |-> "warning", tool |-> name])]

\* The loop body that forgets to record a failed name.
loop_body_forgets(s, name, b, i) ==
    IF name \notin TOOL_FACTORY
    THEN [s EXCEPT !.log = Append(@, [level |-> "error", tool |-> name])]
    ELSE LET tool_instance == safe_tool_instantiation(name, b, i)
         IN  IF tool_instance # None
             THEN [s EXCEPT !.tool_list = Append(@, tool_instance),
                            !.successful_tools = Append(@, name)]
             ELSE [s EXCEPT !.failed_tools = Append(@, name),
                            !.log = Append(@, [level |-> "warning", tool |-> name])]

\* The loop body that puts a new tool in front of the list.
loop_body_prepends(s, name, b, i) ==
    IF name \notin TOOL_FACTORY
    THEN [s EXCEPT !.failed_tools = Append(@, name),
                   !.log = Append(@, [level |-> "error", tool |-> name])]
    ELSE LET tool_instance == safe_tool_instantiation(name, b, i)
         IN  IF tool_instance # None
             THEN [s EXCEPT !.tool_list = <<tool_instance>> \o @,
                            !.successful_tools = Append(@, name)]
             ELSE [s EXCEPT !.failed_tools = Append(@, name),
                            !.log = Append(@, [level |-> "warning", tool |-> name])]

loop_body(s, name, b, i) ==
    IF name \notin TOOL_FACTORY
    THEN \* raise ValueError, caught by "except Exception" of the same pass
         [s EXCEPT !.failed_tools = Append(@, name),
                   !.log = Append(@, [level |-> "error", tool |-> name])]
    ELSE LET tool_instance == safe_tool_instantiation(name, b, i)
         IN  IF tool_instance # None
             THEN [s EXCEPT !.tool_list = Append(@, tool_instance),
                            !.successful_tools = Append(@, name)]
             ELSE [s EXCEPT !.failed_tools = Append(@, name),
                            !.log = Append(@, [level |-> "warning", tool |-> name])]

(***************************************************************************)
(* Model texts                                                             *)
(*                                                                         *)
(* A Python string is a sequence of chunks.  Three chunks are the ones the *)
(* cleaning looks for: "ws" is one whitespace character, "fence" is three  *)
(* backticks, "json" is the four letters.  In a decoded string "quote" is  *)
(* the double quote, "backslash" the backslash and "e-acute" a character   *)
(* outside ASCII.  Every other chunk is a run of characters holding none   *)
(* of these.                                                               *)
(*                                                                         *)
(* A model text is a sequence of tokens: a chunk, or the text of one JSON  *)
(* value (a blob), whose strings are again sequences of chunks.            *)
(***************************************************************************)
Chunk(c) == [t |-> "chunk", c |-> c]
Blob(v) == [t |-> "blob", v |-> v]

JStr(s) == [j |-> "str", s |-> s]
JNum == [j |-> "num"]
JNull == [j |-> "null"]
JList(s) == [j |-> "list", s |-> s]         \* a list holding the string s
JDict(s) == [j |-> "dict", s |-> s]         \* a mapping with one value, the string s
Absent == [j |-> "absent"]                  \* the key is not in the object
JObj(a, ai) == [j |-> "obj", action |-> a, action_input |-> ai]

IsStructured(v) == v.j \in {"list", "dict"}
HasString(v) == v.j \in {"str", "list", "dict"}

\* The class of a chunk for the regular expression.
ChunkClass(c) == IF c \in {"ws", "fence", "json"} THEN c ELSE "other"
TokenClass(tok) == IF tok.t = "chunk" THEN ChunkClass(tok.c) ELSE "other"

(***************************************************************************)
(* assistant_utils.py: _extract_clean_json                                 *)
(***************************************************************************)
\* The number of whitespace classes of cls from position i on.
RECURSIVE WsRun(_, _)
WsRun(cls, i) ==
    IF i <= Len(cls) /\ cls[i] = "ws" THEN 1 + WsRun(cls, i + 1) ELSE 0

ClassAt(cls, i) == IF i <= Len(cls) THEN cls[i] ELSE "end"

\* The pattern without its middle alternative: a json tag is removed only
\* right after a fence.
MatchLenNoBareTag(cls, i) ==
    LET w == WsRun(cls, i)
    IN  IF ClassAt(cls, i) = "fence" /\ ClassAt(cls, i + 1) = "json"
        THEN 2 + WsRun(cls, i + 2)
        ELSE IF ClassAt(cls, i + w) = "fence"
        THEN w + 1 + WsRun(cls, i + w + 1)
        ELSE 0

\* The length of the match of the pattern that starts at position i, 0 when
\* none does.  The pattern has three alternatives, tried in order: a fence
\* followed by the json tag and whitespace; the json tag with whitespace on
\* both sides; a fence with whitespace on both sides.
MatchLen(cls, i) ==
    LET w == WsRun(cls, i)
    IN  IF ClassAt(cls, i) = "fence" /\ ClassAt(cls, i + 1) = "json"
        THEN 2 + WsRun(cls, i + 2)
        ELSE IF ClassAt(cls, i + w) = "json"
        THEN w + 1 + WsRun(cls, i + w + 1)
        ELSE IF ClassAt(cls, i + w) = "fence"
        THEN w + 1 + WsRun(cls, i + w + 1)
        ELSE 0

\* re.sub(pattern, "", text): the positions that are kept, scanning from i.
RECURSIVE Kept(_, _)
Kept(cls, i) ==
    IF i > Len(cls) THEN <<>>
    ELSE IF MatchLen(cls, i) > 0 THEN Kept(cls, i + MatchLen(cls, i))
    ELSE <<i>> \o Kept(cls, i + 1)

Pick(s, ks) == [n \in 1..Len(ks) |-> s[ks[n]]]

TokIsWs(tok) == tok = Chunk("ws")

\* text.strip()
RECURSIVE LStrip(_)
LStrip(s) == IF s # <<>> /\ TokIsWs(Head(s)) THEN LStrip(Tail(s)) ELSE s

RECURSIVE RStrip(_)
RStrip(s) ==
    IF s # <<>> /\ TokIsWs(s[Len(s)]) THEN RStrip(SubSeq(s, 1, Len(s) - 1)) ELSE s

Strip(s) == RStrip(LStrip(s))

\* The cleaning as it acts inside a JSON string: the substitution and the
\* replace; the strip only touches the two ends of the whole text.
CleanChunks(s) ==
    LET subbed == Pick(s, Kept([n \in 1..Len(s) |-> ChunkClass(s[n])], 1))
    IN  SelectSeq(subbed, LAMBDA c : c # "fence")

CleanValue(v) ==
    IF v.j = "obj"
    THEN JObj(IF HasString(v.action) THEN [v.action EXCEPT !.s = CleanChunks(@)]
              ELSE v.action,
              IF HasString(v.action_input)
              THEN [v.action_input EXCEPT !.s = CleanChunks(@)]
              ELSE v.action_input)
    ELSE IF HasString(v) THEN [v EXCEPT !.s = CleanChunks(@)]
    ELSE v

CleanToken(tok) == IF tok.t = "blob" THEN Blob(CleanValue(tok.v)) ELSE tok

\* text.strip(); re.sub(pattern, "", text); text.replace(fence, "").strip()
extract_clean_json(txt) ==
    LET stripped == Strip(txt)
        subbed == Pick(stripped,
                       Kept([n \in 1..Len(stripped) |-> TokenClass(stripped[n])], 1))
        replaced == SelectSeq(subbed, LAMBDA tok : tok # Chunk("fence"))
        cleaned == Strip(replaced)
    IN  [n \in 1..Len(cleaned) |-> CleanToken(cleaned[n])]

(***************************************************************************)
(* json.loads                                                              *)
(***************************************************************************)
JSONDecodeError == [raise |-> "JSONDecodeError"]
AttributeError == [raise |-> "AttributeError"]

\* A decoder that takes the first JSON value of s and ignores what follows.
json_loads_first_blob(s) ==
    LET blobs == SelectSeq(s, LAMBDA tok : tok.t = "blob")
    IN  IF blobs # <<>> THEN blobs[1].v ELSE JSONDecodeError

\* json.loads(s): the value when s is the text of exactly one JSON value,
\* with whitespace allowed around it; otherwise JSONDecodeError.
json_loads(s) ==
    LET core == Strip(s)
    IN  IF Len(core) = 1 /\ core[1].t = "blob" THEN core[1].v
        ELSE JSONDecodeError

(***************************************************************************)
(* assistant_utils.py: CustomJSONAssistantOutputParser.parse               *)
(***************************************************************************)
AgentFinish(output, lg) == [variant |-> "AgentFinish", output |-> output, log |-> lg]
AgentAction(tool, tool_input, lg) ==
    [variant |-> "AgentAction", tool |-> tool, tool_input |-> tool_input, log |-> lg]

\* str(v) of a decoded value, as chunks.
PyStr(v) ==
    CASE v.j = "str"    -> v.s
      [] v.j = "num"    -> <<"5">>
      [] v.j = "null"   -> <<"None">>
      [] v.j = "absent" -> <<"None">>       \* dict.get of a missing key is None
      [] OTHER          -> <<"repr">> \o v.s

\* The literal written without escaping anything.
escape_nothing(s) == s

\* The characters of a JSON string literal for the characters s of a Python
\* string: the quote and the backslash get a backslash in front, a character
\* outside ASCII becomes its \u escape (ensure_ascii is left at True).
RECURSIVE escape(_)
escape(s) ==
    IF s = <<>> THEN <<>>
    ELSE (CASE Head(s) = "quote"     -> <<"backslash", "quote">>
            [] Head(s) = "backslash" -> <<"backslash", "backslash">>
            [] Head(s) = "e-acute"   -> <<"backslash", "u00e9">>
            [] OTHER                 -> <<Head(s)>>) \o escape(Tail(s))

\* json.dumps(v, indent=2) of a list or a mapping, as characters: the items
\* on lines of their own, two spaces in.
json_dumps(v) ==
    IF v.j = "list"
    THEN <<"[", "nl", "ws", "ws", "quote">> \o escape(v.s) \o <<"quote", "nl", "]">>
    ELSE <<"{", "nl", "ws", "ws", "quote", "k", "quote", ":", "ws", "quote">>
         \o escape(v.s) \o <<"quote", "nl", "}">>

\* The three shapes a final output takes.
RawOutput(txt) == [kind |-> "raw", text |-> txt]
StrOutput(v) == [kind |-> "str", chunks |-> PyStr(v)]
DumpsOutput(v) == [kind |-> "json.dumps", chunks |-> json_dumps(v)]

\* The terminal marker alone.
TerminalActionsNoSynonym == {<<"Final Answer">>}

TerminalActions == {<<"Final Answer">>, <<"response">>}

\* The lines of parse after json.loads, for a decoded object p.
from_object(p, txt) ==
    IF p.action.j = "str" /\ p.action.s \in TerminalActions
    THEN AgentFinish(IF IsStructured(p.action_input)
                     THEN DumpsOutput(p.action_input)
                     ELSE StrOutput(p.action_input), txt)
    ELSE AgentAction(IF p.action = Absent THEN <<>> ELSE PyStr(p.action),
                     IF p.action_input = Absent THEN JStr(<<>>)
                     ELSE p.action_input, txt)

\* The try block of parse once json.loads has answered p for cleaned_text.
from_decoded(p, cleaned_text, txt) ==
    IF p = JSONDecodeError
    THEN \* except json.JSONDecodeError
         AgentFinish(RawOutput(txt), txt)
    ELSE IF p.j # "obj"
    THEN \* parsed.get on a number, a string, a list or None: AttributeError,
         \* which no except clause of parse catches
         AttributeError
    ELSE from_object(p, txt)

decode_cleaned(cleaned_text, txt) ==
    from_decoded(json_loads(cleaned_text), cleaned_text, txt)

parse(txt) == decode_cleaned(extract_clean_json(txt), txt)

(***************************************************************************)
(* core.py: BiocatalysisAssistant.__init__, the whole for loop and the two *)
(* closing log lines                                                       *)
(***************************************************************************)
RECURSIVE run_loop(_, _, _, _)
run_loop(s, names, bs, i) ==
    IF i > Len(names) \/ s.raised THEN s
    ELSE run_loop(loop_body(s, names[i], bs[i], i), names, bs, i + 1)

closing_log(s) ==
    LET lg1 == IF s.successful_tools # <<>>
               THEN Append(s.log, [level |-> "info", loaded |-> s.successful_tools])
               ELSE s.log
    IN  IF s.failed_tools # <<>>
        THEN Append(lg1, [level |-> "warning", failed |-> s.failed_tools])
        ELSE lg1

\* The state of __init__ when it returns.
closing_state(names, bs) ==
    LET s == run_loop(BuildState(<<>>, <<>>, <<>>, <<>>, FALSE), names, bs, 1)
    IN  [s EXCEPT !.log = closing_log(s)]

(***************************************************************************)
(* The AgentExecutor of create_agent:                                      *)
(*   AgentExecutor(agent=agent, tools=tools, handle_parsing_errors=True,   *)
(*                 verbose=True, memory=memory, max_iterations=5)          *)
(* early_stopping_method is left at "force".                               *)
(***************************************************************************)
max_iterations == 5

\* The answer of the executor when the iteration limit stops it.
ForceStopMessage == <<"Agent stopped due to iteration limit or time limit.">>
ForceStopOutput == [kind |-> "str", chunks |-> ForceStopMessage]

ToolNames(tools) == {<<tools[n].name>> : n \in 1..Len(tools)}

\* What a tool's _run does with its input.
ToolRuns == {"returns", "raises"}

\* The exception with which _run leaves: the tools catch what went wrong and
\* raise a ValueError with a message of their own.
ToolError(tool) == [raise |-> "ValueError", tool |-> tool]

\* The observation of one action whose tool did not raise.  A name that is
\* not the name of a tool of the executor is answered by the executor itself.
Observation(tools, action) ==
    IF action.tool \in ToolNames(tools)
    THEN [kind |-> "result", tool |-> action.tool]
    ELSE [kind |-> "invalid_tool", requested_tool_name |-> action.tool,
          available_tool_names |-> [n \in 1..Len(tools) |-> tools[n].name]]

Outcome(ph, steps, its, resp, ex) ==
    [phase |-> ph, intermediate_steps |-> steps, iterations |-> its,
     response |-> resp, exc |-> ex]

\* The end of a pass that never stops at the limit.
after_observation_nocap(steps2, its2) ==
    Outcome("thinking", steps2, its2, None, None)

\* The end of a pass that answers with the last observation at the limit.
after_observation_generate(steps2, its2) ==
    IF its2 < max_iterations
    THEN Outcome("thinking", steps2, its2, None, None)
    ELSE Outcome("returned", steps2, its2,
                 [output |-> [kind |-> "from_observation",
                              observation |-> steps2[Len(steps2)].observation]],
                 None)

\* The end of a pass that ran a tool: the pair is appended, the counter
\* grows, and when that uses up the last iteration the executor returns the
\* stopped response in the same call.
after_observation(steps2, its2) ==
    IF its2 < max_iterations
    THEN Outcome("thinking", steps2, its2, None, None)
    ELSE Outcome("returned", steps2, its2, [output |-> ForceStopOutput], None)

\* The observation an executor would make of a tool's exception.
ErrorObservation(tool) == [kind |-> "error", tool |-> tool, message |-> ToolError(tool)]

\* The pass that turns the exception of a tool into an observation.
after_parse_handles_tool_error(tools, steps, its, out, run) ==
    IF out = AttributeError
    THEN Outcome("raised", steps, its, None, AttributeError)
    ELSE IF out.variant = "AgentFinish"
    THEN Outcome("returned", steps, its, [output |-> out.output], None)
    ELSE IF out.tool \in ToolNames(tools) /\ run = "raises"
    THEN after_observation(
             Append(steps, [action |-> out, observation |-> ErrorObservation(out.tool)]),
             its + 1)
    ELSE after_observation(
             Append(steps, [action |-> out, observation |-> Observation(tools, out)]),
             its + 1)

\* The pass that ends the turn when the name of the action is not the name
\* of a tool, with an answer reporting the name.
after_parse_unknown_ends(tools, steps, its, out, run) ==
    IF out = AttributeError
    THEN Outcome("raised", steps, its, None, AttributeError)
    ELSE IF out.variant = "AgentFinish"
    THEN Outcome("returned", steps, its, [output |-> out.output], None)
    ELSE IF out.tool \notin ToolNames(tools)
    THEN Outcome("returned", steps, its,
                 [output |-> [kind |-> "unknown_tool", name |-> out.tool]], None)
    ELSE IF run = "raises"
    THEN Outcome("raised", steps, its, None, ToolError(out.tool))
    ELSE after_observation(
             Append(steps, [action |-> out, observation |-> Observation(tools, out)]),
             its + 1)

\* One pass of the executor's loop once parse has answered out; run tells
\* what the tool does if one is called.  An exception of parse or of the
\* tool is not caught by the executor.
after_parse(tools, steps, its, out, run) ==
    IF out = AttributeError
    THEN Outcome("raised", steps, its, None, AttributeError)
    ELSE IF out.variant = "AgentFinish"
    THEN Outcome("returned", steps, its, [output |-> out.output], None)
    ELSE IF out.tool \in ToolNames(tools) /\ run = "raises"
    THEN Outcome("raised", steps, its, None, ToolError(out.tool))
    ELSE after_observation(
             Append(steps, [action |-> out, observation |-> Observation(tools, out)]),
             its + 1)

\* The tool the pass runs, if any, with what its _run does.
tool_run(tools, out, run) ==
    IF out # AttributeError /\ out.variant = "AgentAction" /\ out.tool \in ToolNames(tools)
    THEN [tool |-> out.tool, run |-> run]
    ELSE None

(***************************************************************************)
(* assistant_utils.py: create_agent, the memory and the prompt             *)
(***************************************************************************)
HumanMessage(content) == [type |-> "human", content |-> content]
AIMessage(content) == [type |-> "ai", content |-> content]

\* ", ".join([t.name for t in tools])
tool_names(tools) == [n \in 1..Len(tools) |-> tools[n].name]

\* The executor that is given a memory whatever use_memory says.
create_agent_always_memory(tools, um) ==
    [tools |-> tools, max_iterations |-> max_iterations, use_memory |-> TRUE,
     memory |-> <<>>, partial |-> [tool_names |-> tool_names(tools)]]

\* The executor whose prompt lists every name of the catalog.
create_agent_lists_catalog(tools, um) ==
    [tools |-> tools, max_iterations |-> max_iterations, use_memory |-> um,
     memory |-> IF um THEN <<>> ELSE None,
     partial |-> [tool_names |-> TOOL_FACTORY_keys]]

\* create_agent(tools, llm, use_memory): the executor, with a new and empty
\* ConversationBufferMemory when use_memory holds and without one otherwise.
\* memory is the list memory.chat_memory.messages.  partial holds what
\* prompt.partial(...) fixed in the prompt when the agent was made.
create_agent(tools, um) ==
    [tools |-> tools, max_iterations |-> max_iterations, use_memory |-> um,
     memory |-> IF um THEN <<>> ELSE None,
     partial |-> [tool_names |-> tool_names(tools)]]

\* chat_history=lambda x: memory.chat_memory.messages
\*                        if (use_memory and memory is not None) else []
chat_history(ag) ==
    IF ag.use_memory /\ ag.memory # None THEN ag.memory ELSE <<>>

\* format_log_to_str(x["intermediate_steps"]): for every pair, in order, the
\* log of the action followed by the observation.
format_log_to_str(steps) ==
    [n \in 1..Len(steps) |->
        [log |-> steps[n].action.log, observation |-> steps[n].observation]]

\* What one call of the model is given.  The system prompt names the tools
\* ("with names {tool_names}") and the valid actions ('Valid "action"
\* values: Final Answer or {tool_names}') from the partial of the prompt.
format_prompt(ag, inp, steps) ==
    [input |-> inp,
     agent_scratchpad |-> format_log_to_str(steps),
     chat_history |-> chat_history(ag),
     tool_names |-> ag.partial.tool_names,
     valid_actions |-> <<"Final Answer">> \o ag.partial.tool_names]

\* A memory that does not store a turn it already holds.
save_context_dedup(ag, inp, output) ==
    IF ag.memory = None THEN ag
    ELSE IF \E n \in 1..Len(ag.memory) - 1 :
               ag.memory[n] = HumanMessage(inp) /\ ag.memory[n + 1] = AIMessage(output)
    THEN ag
    ELSE [ag EXCEPT !.memory = @ \o <<HumanMessage(inp), AIMessage(output)>>]

\* The executor with a memory saves the turn when agent.invoke returns:
\* memory.save_context(inputs, outputs) appends the user input and then the
\* output.  Without a memory nothing is saved.
save_context(ag, inp, output) ==
    IF ag.memory = None THEN ag
    ELSE [ag EXCEPT !.memory = @ \o <<HumanMessage(inp), AIMessage(output)>>]

\* The executor after a pass that ended as o.
after_pass(ag, inp, o) ==
    IF o.phase = "returned" THEN save_context(ag, inp, o.response.output) ELSE ag

(***************************************************************************)
(* Inputs                                                                  *)
(***************************************************************************)
WrapChunks == {Chunk("ws"), Chunk("fence"), Chunk("json")}
Wrappers == SeqsUpTo(WrapChunks, MaxWrap)

ActionStrings == {<<"Final Answer">>, <<"response">>, <<"FindPDBStructure">>}
InputValues == {JStr(<<"done">>), JStr(<<"a", "ws", "json">>), JDict(<<"x">>),
                JStr(<<"a", "fence", "b">>),
                JList(<<"x">>), JList(<<"a", "quote", "ws", "e-acute">>),
                JDict(<<"backslash", "quote">>)}

\* Objects with both keys, a string action and a string or structured input.
WellFormedObjects == {JObj(JStr(a), ai) : a \in ActionStrings, ai \in InputValues}

\* Objects that miss a key or hold a value of another type, and JSON values
\* that are not objects.
OtherValues ==
    {JObj(Absent, Absent), JObj(JStr(<<"Final Answer">>), Absent),
     JObj(JNum, JStr(<<"done">>)), JObj(JStr(<<"Final Answer">>), JNum),
     JObj(JStr(<<"Final Answer">>), JNull),
     JNum, JNull, JStr(<<"done">>), JList(<<"x">>)}

WrappedTexts ==
    {pre \o <<Blob(v)>> \o post :
        pre \in Wrappers, post \in Wrappers, v \in WellFormedObjects \cup OtherValues}

FreeTokens ==
    WrapChunks \cup {Chunk("not"), Blob(JObj(JStr(<<"Final Answer">>), JStr(<<"done">>))),
                     Blob(JObj(JStr(<<"FindPDBStructure">>), JStr(<<"done">>))),
                     Blob(JNum)}
FreeTexts == SeqsUpTo(FreeTokens, MaxFree)

Texts == WrappedTexts \cup FreeTexts

\* What the model answers inside the loop.
ModelTexts ==
    {<<Chunk("fence"), Chunk("json"), Chunk("ws"),
       Blob(JObj(JStr(<<"FindPDBStructure">>), JStr(<<"done">>))), Chunk("ws"),
       Chunk("fence")>>,
     <<Blob(JObj(Absent, Absent))>>,
     <<Blob(JObj(JStr(<<"Final Answer">>), JStr(<<"done">>)))>>,
     <<Blob(JObj(JStr(<<"response">>), JDict(<<"x">>)))>>,
     <<Chunk("not"), Chunk("ws"), Chunk("json"), Chunk("ws"), Chunk("at"),
       Chunk("ws"), Chunk("all")>>,
     <<Blob(JNum)>>}

\* What the user asks in a turn.
UserInputs == {"q1", "q2"}

Attempts == UNION {{<<name, b>> : b \in Behaviours(name)} : name \in RequestNames}
Requests == SeqsUpTo(Attempts, MaxRequested)

\* The requests of one name, for every name of the catalog.
SingleRequests ==
    UNION {{<<<<name, b>>>> : b \in Behaviours(name)} : name \in TOOL_FACTORY}

\* The arguments of __init__: a list of names, or no list.
RequestArgs ==
    {[given |-> TRUE,
      tool_names |-> [n \in 1..Len(r) |-> r[n][1]],
      behaviour |-> [n \in 1..Len(r) |-> r[n][2]]] : r \in Requests \cup SingleRequests}
    \cup {[given |-> FALSE, tool_names |-> <<>>, behaviour |-> bs] :
             bs \in DefaultBehaviours}

(***************************************************************************)
(* The session: build, getters, initiate_agent, agent.invoke               *)
(***************************************************************************)
Idle == phase \in {"built", "returned", "raised"}

Init ==
    /\ \E a \in RequestArgs :
          /\ given = a.given
          /\ requested = effective_tool_names(a.given, a.tool_names)
          /\ behaviour = a.behaviour
    /\ idx = 1
    /\ tool_list = <<>>
    /\ successful_tools = <<>>
    /\ failed_tools = <<>>
    /\ log = <<>>
    /\ returned = None
    /\ phase = "new"
    /\ agent = None
    /\ intermediate_steps = <<>>
    /\ iterations = 0
    /\ response = None
    /\ exc = None
    /\ turns = 0
    /\ last_run = None
    /\ text = <<>>
    /\ parsed = None
    /\ use_memory \in BOOLEAN
    /\ input = None
    /\ prompt = None
    /\ completed = <<>>
    /\ calls = 0
    /\ session_state = None
    /\ cli = None
    /\ md = None
    /\ env = None

\* BiocatalysisAssistant(tool_names=requested, use_memory=use_memory)
Build ==
    /\ phase = "new"
    /\ LET s == run_loop(BuildState(<<>>, <<>>, <<>>, <<>>, FALSE),
                         requested, behaviour, 1)
       IN  /\ tool_list' = s.tool_list
           /\ successful_tools' = s.successful_tools
           /\ failed_tools' = s.failed_tools
           /\ idx' = Len(s.successful_tools) + Len(s.failed_tools) + 1
           /\ IF s.raised
              THEN /\ phase' = "build_raised"
                   /\ exc' = [raise |-> "ValueError"]
                   /\ log' = s.log
              ELSE /\ phase' = "built"
                   /\ exc' = None
                   /\ log' = closing_log(s)
    /\ UNCHANGED otherVars
    /\ UNCHANGED <<given, requested, behaviour, returned, agent, intermediate_steps,
                   iterations, response, turns, last_run, text, parsed,
                   use_memory, input, prompt, completed, calls>>

\* assistant.get_available_tools()
get_available_tools ==
    /\ Idle
    /\ returned' = [call |-> "get_available_tools", value |-> tool_list]
    /\ UNCHANGED otherVars
    /\ UNCHANGED <<given, requested, behaviour, idx, tool_list, successful_tools,
                   failed_tools, log, phase, agent, intermediate_steps,
                   iterations, response, exc, turns, last_run, text, parsed,
                   use_memory, input, prompt, completed, calls>>

\* BiocatalysisAssistant.get_supported_tools()
get_supported_tools ==
    /\ Idle
    /\ returned' = [call |-> "get_supported_tools", value |-> TOOL_FACTORY]
    /\ UNCHANGED otherVars
    /\ UNCHANGED <<given, requested, behaviour, idx, tool_list, successful_tools,
                   failed_tools, log, phase, agent, intermediate_steps,
                   iterations, response, exc, turns, last_run, text, parsed,
                   use_memory, input, prompt, completed, calls>>

\* An initiate_agent that tries again the classes that failed at build and
\* finds them ready.
initiate_agent_retries ==
    /\ Idle
    /\ tool_list' = closing_state(requested, [n \in 1..Len(requested) |-> "ok"]).tool_list
    /\ agent' = create_agent(tool_list', use_memory)
    /\ prompt' = None
    /\ completed' = <<>>
    /\ UNCHANGED otherVars
    /\ UNCHANGED <<given, requested, behaviour, idx, successful_tools,
                   failed_tools, log, returned, phase, intermediate_steps,
                   iterations, response, exc, turns, last_run, text, parsed,
                   use_memory, input, calls>>

\* assistant.initiate_agent(): create_llm or create_agent may raise, and
\* then the caller gets no agent.
initiate_agent ==
    /\ Idle
    /\ \E ok \in BOOLEAN :
          IF ok
          THEN /\ agent' = create_agent(tool_list, use_memory)
               /\ prompt' = None
               /\ completed' = <<>>
          ELSE UNCHANGED <<agent, prompt, completed>>
    /\ UNCHANGED otherVars
    /\ UNCHANGED <<given, requested, behaviour, idx, tool_list, successful_tools,
                   failed_tools, log, returned, phase, intermediate_steps,
                   iterations, response, exc, turns, last_run, text, parsed,
                   use_memory, input, calls>>

\* An invoke that goes on with the pairs of the turn before.
invoke_upto_keeps_steps(limit) ==
    /\ Idle
    /\ agent # None
    /\ turns < limit
    /\ \E inp \in UserInputs : input' = inp
    /\ phase' = "thinking"
    /\ iterations' = 0
    /\ response' = None
    /\ exc' = None
    /\ turns' = turns + 1
    /\ last_run' = None
    /\ prompt' = None
    /\ returned' = None
    /\ text' = <<>>
    /\ parsed' = None
    /\ calls' = 0
    /\ UNCHANGED otherVars
    /\ UNCHANGED <<given, requested, behaviour, idx, tool_list, successful_tools,
                   failed_tools, log, agent, use_memory, completed,
                   intermediate_steps>>

\* agent.invoke({"input": ...}) is entered: the turn starts with an empty
\* scratchpad.  limit bounds the number of turns.
invoke_upto(limit) ==
    /\ Idle
    /\ agent # None
    /\ turns < limit
    /\ \E inp \in UserInputs : input' = inp
    /\ phase' = "thinking"
    /\ intermediate_steps' = <<>>
    /\ iterations' = 0
    /\ response' = None
    /\ exc' = None
    /\ turns' = turns + 1
    /\ last_run' = None
    /\ prompt' = None
    /\ returned' = None
    /\ text' = <<>>
    /\ parsed' = None
    /\ calls' = 0
    /\ UNCHANGED otherVars
    /\ UNCHANGED <<given, requested, behaviour, idx, tool_list, successful_tools,
                   failed_tools, log, agent, use_memory, completed>>

invoke == invoke_upto(MaxTurns)

\* One pass of the loop of the running agent.invoke.
step ==
    /\ phase = "thinking"
    /\ \E txt \in ModelTexts, run \in ToolRuns :
          \E out \in {parse(txt)} :
          \E o \in {after_parse(agent.tools, intermediate_steps, iterations, out, run)} :
              /\ phase' = o.phase
              /\ intermediate_steps' = o.intermediate_steps
              /\ iterations' = o.iterations
              /\ response' = o.response
              /\ exc' = o.exc
              /\ last_run' = tool_run(agent.tools, out, run)
              /\ agent' = after_pass(agent, input, o)
              /\ text' = txt
              /\ parsed' = out
              /\ completed' = IF o.phase = "returned"
                              THEN Append(completed, [input |-> input,
                                                      output |-> o.response.output])
                              ELSE completed
    /\ prompt' = format_prompt(agent, input, intermediate_steps)
    /\ calls' = calls + 1
    /\ UNCHANGED otherVars
    /\ UNCHANGED <<given, requested, behaviour, idx, tool_list, successful_tools,
                   failed_tools, log, returned, turns, use_memory, input>>

\* The session of one assistant from its construction on: the build, the
\* getters and initiate_agent, for every request.
Next ==
    \/ Build
    \/ get_available_tools
    \/ get_supported_tools
    \/ initiate_agent

Spec == Init /\ [][Next]_vars

(***************************************************************************)
(* The conversation: several turns with an assistant that has been built   *)
(***************************************************************************)
\* The requests of the assistants that converse.
ChatRequests ==
    {<<<<"FindPDBStructure", "ok">>>>,
     <<<<"FindPDBStructure", "requirements_not_met">>, <<"MDSimulation", "ok">>>>}

\* The state after BiocatalysisAssistant(tool_names=..., use_memory=...).
InitChat ==
    /\ \E r \in ChatRequests :
          /\ requested = [n \in 1..Len(r) |-> r[n][1]]
          /\ behaviour = [n \in 1..Len(r) |-> r[n][2]]
    /\ given = TRUE
    /\ \E s \in {closing_state(requested, behaviour)} :
          /\ tool_list = s.tool_list
          /\ successful_tools = s.successful_tools
          /\ failed_tools = s.failed_tools
          /\ log = s.log
    /\ idx = Len(requested) + 1
    /\ returned = None
    /\ phase = "built"
    /\ agent = None
    /\ intermediate_steps = <<>>
    /\ iterations = 0
    /\ response = None
    /\ exc = None
    /\ turns = 0
    /\ last_run = None
    /\ text = <<>>
    /\ parsed = None
    /\ use_memory \in BOOLEAN
    /\ input = None
    /\ prompt = None
    /\ completed = <<>>
    /\ calls = 0
    /\ session_state = None
    /\ cli = None
    /\ md = None
    /\ env = None

NextChat ==
    \/ get_available_tools
    \/ get_supported_tools
    \/ initiate_agent
    \/ invoke
    \/ step

SpecChat == InitChat /\ [][NextChat]_vars

(***************************************************************************)
(* The parser alone, on every text of Texts                                *)
(***************************************************************************)
InitParse ==
    /\ text \in Texts
    /\ parsed = None
    /\ phase = "parse"
    /\ given = TRUE
    /\ requested = <<>>
    /\ behaviour = <<>>
    /\ idx = 1
    /\ tool_list = <<>>
    /\ successful_tools = <<>>
    /\ failed_tools = <<>>
    /\ log = <<>>
    /\ returned = None
    /\ agent = None
    /\ intermediate_steps = <<>>
    /\ iterations = 0
    /\ response = None
    /\ exc = None
    /\ turns = 0
    /\ last_run = None
    /\ use_memory = TRUE
    /\ input = None
    /\ prompt = None
    /\ completed = <<>>
    /\ calls = 0
    /\ session_state = None
    /\ cli = None
    /\ md = None
    /\ env = None

\* CustomJSONAssistantOutputParser().parse(text)
parse_call ==
    /\ phase = "parse"
    /\ parsed' = parse(text)
    /\ phase' = "parsed"
    /\ UNCHANGED otherVars
    /\ UNCHANGED <<text, registryVars, loopVars>>

NextParse == parse_call

SpecParse == InitParse /\ [][NextParse]_vars

(***************************************************************************)
(* Mutagenesis.safe_tool_instantiation() in every environment              *)
(***************************************************************************)
InitMutagenesis ==
    /\ env \in MutagenesisEnvs
    /\ phase = "tool_class"
    /\ text = <<>>
    /\ parsed = None
    /\ given = TRUE
    /\ requested = <<>>
    /\ behaviour = <<>>
    /\ idx = 1
    /\ tool_list = <<>>
    /\ successful_tools = <<>>
    /\ failed_tools = <<>>
    /\ log = <<>>
    /\ returned = None
    /\ agent = None
    /\ intermediate_steps = <<>>
    /\ iterations = 0
    /\ response = None
    /\ exc = None
    /\ turns = 0
    /\ last_run = None
    /\ use_memory = TRUE
    /\ input = None
    /\ prompt = None
    /\ completed = <<>>
    /\ calls = 0
    /\ session_state = None
    /\ cli = None
    /\ md = None

instantiate_Mutagenesis ==
    /\ phase = "tool_class"
    /\ \E r \in {Mutagenesis_safe_tool_instantiation(env)} :
          /\ returned' = r
          /\ env' = r.env
    /\ phase' = "instantiated"
    /\ UNCHANGED <<given, requested, behaviour, idx, tool_list, successful_tools,
                   failed_tools, log, agent, intermediate_steps, iterations,
                   response, exc, turns, last_run, text, parsed, use_memory,
                   input, prompt, completed, calls, session_state, cli, md>>

NextMutagenesis == instantiate_Mutagenesis

SpecMutagenesis == InitMutagenesis /\ [][NextMutagenesis]_vars

(***************************************************************************)
(* tools/md_simulations.py: MDSimulation._run, one stage at a time         *)
(***************************************************************************)
\* The names a stages argument is made of: the three stages that have an
\* MDP file and a run script, and a name that has none.
StageNames == {"minimization", "nvt", "npt", "production"}

ProteinOnlyPDB == [file |-> "protein_only.pdb"]

\* output_dir / f"{self.stage_name}.gro" with output_dir the folder of the
\* stage in the folder of the experiment.
StageOutput(stage_name) == [file |-> "gro", dir |-> stage_name]

\* What the run script of a stage can do: "bash run_<stage>.sh" ends with
\* status 0 or not, and the script of an unknown stage does not exist.
StageResults(stage_name) ==
    IF stage_name \in {"minimization", "nvt", "npt"} THEN {"completed", "failed"}
    ELSE {"failed"}

\* _run(pdb_file, stages) is entered.
InitMD ==
    /\ \E st \in SeqsUpTo(StageNames, MaxStages), ex \in BOOLEAN :
          md = [pdb_file_exists |-> ex,
                stages |-> st,
                pc |-> "entered",
                next_stage |-> 1,
                input_file |-> None,
                started |-> <<>>,
                result |-> None]
    /\ phase = "tool_run"
    /\ env = None
    /\ text = <<>>
    /\ parsed = None
    /\ given = TRUE
    /\ requested = <<>>
    /\ behaviour = <<>>
    /\ idx = 1
    /\ tool_list = <<>>
    /\ successful_tools = <<>>
    /\ failed_tools = <<>>
    /\ log = <<>>
    /\ returned = None
    /\ agent = None
    /\ intermediate_steps = <<>>
    /\ iterations = 0
    /\ response = None
    /\ exc = None
    /\ turns = 0
    /\ last_run = None
    /\ use_memory = TRUE
    /\ input = None
    /\ prompt = None
    /\ completed = <<>>
    /\ calls = 0
    /\ session_state = None
    /\ cli = None

mdFrame == <<given, requested, behaviour, idx, tool_list, successful_tools,
             failed_tools, log, returned, phase, agent, intermediate_steps,
             iterations, response, exc, turns, last_run, text, parsed,
             use_memory, input, prompt, completed, calls, session_state, cli, env>>

\* The lines before the for loop: the input file is looked for, the protein
\* is selected from it and the folder of the experiment is made.
preprocess_structure ==
    /\ md.pc = "entered"
    /\ IF md.pdb_file_exists
       THEN md' = [md EXCEPT !.pc = "stages", !.input_file = ProteinOnlyPDB]
       ELSE md' = [md EXCEPT !.pc = "raised",
                             !.result = [raise |-> "ValueError"]]
    /\ UNCHANGED mdFrame

\* One pass of "for stage_name in stages": stage.run(input_file, ...) calls
\* the run script and waits for it; its output is the input of the next
\* pass.  A script that fails raises, and _run re-raises as ValueError.
run_stage ==
    /\ md.pc = "stages"
    /\ md.next_stage <= Len(md.stages)
    /\ LET stage_name == md.stages[md.next_stage]
       IN  \E res \in StageResults(stage_name) :
              LET started2 == Append(md.started, [stage_name |-> stage_name,
                                                  input_file |-> md.input_file,
                                                  result |-> res])
              IN  IF res = "completed"
                  THEN md' = [md EXCEPT !.started = started2,
                                        !.input_file = StageOutput(stage_name),
                                        !.next_stage = @ + 1]
                  ELSE md' = [md EXCEPT !.started = started2,
                                        !.pc = "raised",
                                        !.result = [raise |-> "ValueError"]]
    /\ UNCHANGED mdFrame

\* return f"MD simulation completed successfully. Final output: {input_file}"
return_final_output ==
    /\ md.pc = "stages"
    /\ md.next_stage > Len(md.stages)
    /\ md' = [md EXCEPT !.pc = "returned",
                        !.result = [final_output |-> md.input_file]]
    /\ UNCHANGED mdFrame

NextMD ==
    \/ preprocess_structure
    \/ run_stage
    \/ return_final_output

SpecMD == InitMD /\ [][NextMD]_vars

(***************************************************************************)
(* cli.py: main, one call of input() at a time                             *)
(***************************************************************************)
\* The lines the user types: the empty line, a letter for the verbosity, a
\* question of one word, a line of two words, a line of three words, and
\* the three commands (exit with a capital letter).
Lines == {"", "f", "question", "model provider", "a b c", "Exit", "help", "clear"}

\* str.lower()
lower(line) == IF line = "Exit" THEN "exit" ELSE line

\* len(choice.split())
split_len(line) ==
    CASE line = ""               -> 0
      [] line = "model provider" -> 2
      [] line = "a b c"          -> 3
      [] OTHER                   -> 1

\* Settings(): default_model and default_provider.
DefaultSettings == [model |-> "default_model", provider |-> "default_provider"]

\* The keyword arguments BiocatalysisAssistant.__init__ accepts.
InitKeywords == {"tool_names", "model", "provider", "use_memory", "model_kwargs"}

\* The keyword arguments main passes to BiocatalysisAssistant.
MainKeywords == {"model", "provider", "verbose"}

\* main() is entered with sys.argv and the lines that stdin will give.
InitCli ==
    /\ \E av \in {"", "--help", "--version"}, ls \in SeqsUpTo(Lines, MaxLines) :
          cli = [argv |-> av,
                 lines |-> ls,
                 unread |-> ls,
                 pc |-> "start",
                 verbose |-> None,
                 settings |-> None,
                 forwarded |-> <<>>,
                 output |-> <<>>,
                 exc |-> None]
    /\ phase = "cli"
    /\ md = None
    /\ env = None
    /\ text = <<>>
    /\ parsed = None
    /\ given = TRUE
    /\ requested = <<>>
    /\ behaviour = <<>>
    /\ idx = 1
    /\ tool_list = <<>>
    /\ successful_tools = <<>>
    /\ failed_tools = <<>>
    /\ log = <<>>
    /\ returned = None
    /\ agent = None
    /\ intermediate_steps = <<>>
    /\ iterations = 0
    /\ response = None
    /\ exc = None
    /\ turns = 0
    /\ last_run = None
    /\ use_memory = TRUE
    /\ input = None
    /\ prompt = None
    /\ completed = <<>>
    /\ calls = 0
    /\ session_state = None

cliFrame == <<given, requested, behaviour, idx, tool_list, successful_tools,
              failed_tools, log, returned, phase, agent, intermediate_steps,
              iterations, response, exc, turns, last_run, text, parsed,
              use_memory, input, prompt, completed, calls, session_state, md, env>>

\* input(): the next line of stdin, or EOFError when there is none.
EndOfInput == [cli EXCEPT !.pc = "ended", !.exc = [raise |-> "EOFError"]]

\* The first lines of main: --help and --version print and exit,
\* otherwise print_welcome().
main_start ==
    /\ cli.pc = "start"
    /\ cli' = CASE cli.argv = "--help" ->
                     [cli EXCEPT !.pc = "ended", !.output = Append(@, "help")]
                 [] cli.argv = "--version" ->
                     [cli EXCEPT !.pc = "ended", !.output = Append(@, "version")]
                 [] OTHER ->
                     [cli EXCEPT !.pc = "verbosity", !.output = Append(@, "welcome")]
    /\ UNCHANGED cliFrame

\* One pass of the loop of get_verbosity().
get_verbosity ==
    /\ cli.pc = "verbosity"
    /\ IF cli.unread = <<>>
       THEN cli' = EndOfInput
       ELSE LET verbosity == lower(Head(cli.unread))
                rest == [cli EXCEPT !.unread = Tail(@)]
            IN  cli' = IF verbosity \in {"", "t"}
                       THEN [rest EXCEPT !.verbose = TRUE, !.pc = "model"]
                       ELSE IF verbosity = "f"
                       THEN [rest EXCEPT !.verbose = FALSE, !.pc = "model"]
                       ELSE [rest EXCEPT !.output = Append(@, "Invalid input. Please try again.")]
    /\ UNCHANGED cliFrame

\* get_model_and_provider(settings.default_model, settings.default_provider)
get_model_and_provider ==
    /\ cli.pc = "model"
    /\ IF cli.unread = <<>>
       THEN cli' = EndOfInput
       ELSE LET choice == Head(cli.unread)
                rest == [cli EXCEPT !.unread = Tail(@), !.pc = "initializing"]
            IN  cli' = IF split_len(choice) = 0
                       THEN [rest EXCEPT !.settings = DefaultSettings]
                       ELSE IF split_len(choice) = 2
                       THEN [rest EXCEPT !.settings = [model |-> "model",
                                                       provider |-> "provider"]]
                       ELSE \* except ValueError
                            [rest EXCEPT !.settings = DefaultSettings,
                                         !.output = Append(@, "Invalid input. Using default settings.")]
    /\ UNCHANGED cliFrame

\* BiocatalysisAssistant(model=model, provider=provider, verbose=verbose):
\* a keyword that __init__ does not have is a TypeError, raised before the
\* body of __init__ runs.  With known keywords the assistant is built, its
\* agent is made and the loop is entered.
initialize_with(keywords) ==
    /\ cli.pc = "initializing"
    /\ cli' = IF keywords \subseteq InitKeywords
              THEN [cli EXCEPT !.pc = "loop",
                               !.output = @ \o <<"Initializing", "Assistant initialized">>]
              ELSE [cli EXCEPT !.pc = "ended",
                               !.output = Append(@, "Initializing"),
                               !.exc = [raise |-> "TypeError"]]
    /\ UNCHANGED cliFrame

initialize_assistant == initialize_with(MainKeywords)

NextCli ==
    \/ main_start
    \/ get_verbosity
    \/ get_model_and_provider
    \/ initialize_assistant

SpecCli == InitCli /\ [][NextCli]_vars

(***************************************************************************)
(* app/core.py: the Streamlit application.  Every interaction of the user  *)
(* runs the script once: sidebar(), then the page of session_state.page.   *)
(***************************************************************************)
Pages == {"Home", "Tools", "Settings", "Docs", "Examples"}

\* example["example_input"] of the examples shown on the Examples page.
ExampleInputs == {[example_input |-> "e1"], [example_input |-> "e2"]}

T_final == <<Blob(JObj(JStr(<<"Final Answer">>), JStr(<<"done">>)))>>
T_tool == <<Blob(JObj(JStr(<<"FindPDBStructure">>), JStr(<<"done">>)))>>
T_number == <<Blob(JNum)>>

\* What the model answers pass after pass in one turn, with what the tool
\* does when one is run; the model that is asked again after the last
\* entry starts over.
ModelScripts ==
    {<<<<T_final, "returns">>>>,
     <<<<T_tool, "returns">>, <<T_final, "returns">>>>,
     <<<<T_tool, "raises">>>>,
     <<<<T_number, "returns">>>>}

\* The passes of one agent.invoke from the outcome o of the passes so far.
RECURSIVE run_passes(_, _, _, _, _)
run_passes(ag, inp, script, o, prompts) ==
    IF o.phase # "thinking"
    THEN [outcome |-> o, prompts |-> prompts]
    ELSE LET e == script[(Len(prompts) % Len(script)) + 1]
         IN  run_passes(ag, inp, script,
                        after_parse(ag.tools, o.intermediate_steps, o.iterations,
                                    parse(e[1]), e[2]),
                        Append(prompts, format_prompt(ag, inp, o.intermediate_steps)))

\* agent.invoke({"input": inp}) from its entry to its end: the outcome, the
\* prompts the model was given and the executor afterwards.
invoke_result(ag, inp, r) ==
    [outcome |-> r.outcome, prompts |-> r.prompts, input |-> inp,
     agent |-> after_pass(ag, inp, r.outcome)]
AgentExecutor_invoke(ag, inp, script) ==
    invoke_result(ag, inp,
                  run_passes(ag, inp, script,
                             Outcome("thinking", <<>>, 0, None, None), <<>>))

\* What the environment decides when an assistant is created: whether
\* initiate_agent succeeds and how the classes of the catalog behave.
Creations ==
    {[ok |-> TRUE, behaviour |-> bs] : bs \in DefaultBehaviours}
    \cup {[ok |-> FALSE, behaviour |-> <<>>]}

\* The choices that matter to handle_example_execution: there are none
\* when no example is waiting.
ExampleCreations(ss) ==
    IF ss.executing_example THEN Creations ELSE {[ok |-> FALSE, behaviour |-> <<>>]}
ExampleScripts(ss) ==
    IF ss.executing_example THEN ModelScripts ELSE {<<<<T_final, "returns">>>>}

\* BiocatalysisAssistant(model=..., provider=..., use_memory=um).initiate_agent()
\* when nothing is raised.
create_biocatalysis_assistant(c, um) ==
    create_agent(closing_state(TOOL_FACTORY_keys, c.behaviour).tool_list, um)

\* The objects are the AgentExecutor instances made so far; a reference to
\* an agent is its position in objects.
new_object(ss, ex) == [ss EXCEPT !.objects = Append(@, ex)]

\* initialize_session_state() of the first run of the script.  shown is
\* what the last run of the script put in the status box of the Settings
\* page (st.success, st.error).  The
\* attribute previous_memory_state does not exist yet: it is <<>> until
\* try_example sets it, and <<b>> when it holds b.
initialize_session_state(c) ==
    [page |-> "Home",
     messages |-> <<>>,
     agent |-> 1,
     sessions |-> [default |-> [agent |-> 1]],
     current_session |-> "default",
     use_memory |-> TRUE,
     executing_example |-> FALSE,
     current_example |-> None,
     previous_memory_state |-> <<>>,
     objects |-> <<create_biocatalysis_assistant(c, TRUE)>>,
     shown |-> "nothing",
     script_runs |-> 0]

Message(role, content) == [role |-> role, content |-> content]

\* What a run of the script leaves: session_state, whether an exception
\* ended the run, and the calls of agent.invoke it made, in order.
Run(ss, raised, invokes) == [ss |-> ss, raised |-> raised, invokes |-> invokes]

\* try_example(example_input)
try_example(ss, example_input) ==
    [ss EXCEPT !.previous_memory_state = <<ss.use_memory>>,
               !.use_memory = FALSE,
               !.messages = Append(@, Message("user", example_input)),
               !.current_example = example_input,
               !.executing_example = TRUE,
               !.page = "Home"]

\* handle_example_execution() from temp_agent.invoke on, r being what the
\* call did: nothing catches what the temporary agent raises, so the
\* statements after the raising one are not run.
after_temp_agent_invoke(ss, r) ==
    IF r.outcome.phase = "raised"
    THEN Run(ss, TRUE, <<r>>)
    ELSE Run([ss EXCEPT !.messages =
                 Append(@, Message("assistant", r.outcome.response.output)),
                        !.use_memory = ss.previous_memory_state[1],
                        !.executing_example = FALSE,
                        !.current_example = None],
             FALSE, <<r>>)

\* handle_example_execution(): creating the temporary agent is not guarded
\* either.
handle_example_execution(ss, c, script) ==
    IF ~ss.executing_example
    THEN Run(ss, FALSE, <<>>)
    ELSE IF ~c.ok
    THEN Run(ss, TRUE, <<>>)
    ELSE after_temp_agent_invoke(ss,
             AgentExecutor_invoke(create_biocatalysis_assistant(c, FALSE),
                                  ss.current_example, script))

\* handle_user_input() from agent.invoke on, r being what the call did:
\* the exception of agent.invoke is caught and shown as the assistant's
\* message.
after_agent_invoke(ss, inp, r) ==
    LET content == IF r.outcome.phase = "raised"
                   THEN [kind |-> "error", exc |-> r.outcome.exc]
                   ELSE r.outcome.response.output
    IN  Run([ss EXCEPT !.messages = @ \o <<Message("user", inp),
                                           Message("assistant", content)>>,
                       !.objects[ss.agent] = r.agent],
            FALSE, <<r>>)

\* handle_user_input() when the chat input holds inp.
handle_user_input(ss, inp, script) ==
    after_agent_invoke(ss, inp,
                       AgentExecutor_invoke(ss.objects[ss.agent], inp, script))

\* home_page(): handle_example_execution(), display_chat_messages(),
\* handle_user_input().  inp is <<>> when the chat input is empty and holds
\* the query otherwise.
both_runs(e, u) == Run(u.ss, FALSE, e.invokes \o u.invokes)
after_example_execution(e, inp, script2) ==
    IF e.raised \/ inp = <<>>
    THEN e
    ELSE both_runs(e, handle_user_input(e.ss, inp[1], script2))
home_page(ss, inp, c, script, script2) ==
    after_example_execution(handle_example_execution(ss, c, script), inp, script2)

\* The top of examples_page(): an example waiting to be run is dropped.
examples_page(ss) ==
    IF ss.executing_example
    THEN [ss EXCEPT !.executing_example = FALSE,
                    !.current_example = None,
                    !.use_memory = IF ss.previous_memory_state # <<>>
                                   THEN ss.previous_memory_state[1] ELSE @]
    ELSE ss

\* A Save Settings that installs the new agent in the session only.
save_settings_session_only(ss, c, um) ==
    IF ~c.ok
    THEN [ss EXCEPT !.shown = "error"]
    ELSE LET ss2 == new_object(ss, create_biocatalysis_assistant(c, um))
         IN  [ss2 EXCEPT !.sessions[ss.current_session].agent = Len(ss2.objects),
                         !.shown = "success"]

\* The Save Settings button of settings_page(): the assignments are made
\* only when create_biocatalysis_assistant returned.
save_settings(ss, c, um) ==
    IF ~c.ok
    THEN \* except Exception as e: st.error(...)
         [ss EXCEPT !.shown = "error"]
    ELSE LET ss2 == new_object(ss, create_biocatalysis_assistant(c, um))
         IN  [ss2 EXCEPT !.sessions[ss.current_session].agent = Len(ss2.objects),
                         !.agent = Len(ss2.objects),
                         !.shown = "success"]

\* main() after sidebar(): the page of session_state.page is shown.
main(ss, inp, c, script, script2) ==
    IF ss.page = "Home" THEN home_page(ss, inp, c, script, script2)
    ELSE IF ss.page = "Examples" THEN Run(examples_page(ss), FALSE, <<>>)
    ELSE Run(ss, FALSE, <<>>)

\* The state after the first run of the script, whose
\* initialize_session_state() made the agent of the session.
InitApp ==
    /\ \E c \in Creations :
          /\ c.ok
          /\ session_state = initialize_session_state(c)
    /\ phase = "app"
    /\ given = FALSE
    /\ requested = <<>>
    /\ behaviour = <<>>
    /\ idx = 1
    /\ tool_list = <<>>
    /\ successful_tools = <<>>
    /\ failed_tools = <<>>
    /\ log = <<>>
    /\ returned = None
    /\ agent = None
    /\ intermediate_steps = <<>>
    /\ iterations = 0
    /\ response = None
    /\ exc = None
    /\ turns = 0
    /\ last_run = None
    /\ text = <<>>
    /\ parsed = None
    /\ use_memory = TRUE
    /\ input = None
    /\ prompt = None
    /\ completed = <<>>
    /\ calls = 0
    /\ cli = None
    /\ md = None
    /\ env = None

\* One run of the script ended as r: session_state is what the run left,
\* and the loop variables tell of the last agent.invoke of the run.
script_run(r) ==
    /\ session_state' = [r.ss EXCEPT !.script_runs = @ + 1]
    /\ IF r.invokes = <<>>
       THEN UNCHANGED <<agent, input, prompt, response, exc, intermediate_steps,
                        iterations, calls, phase>>
       ELSE LET i == r.invokes[Len(r.invokes)]
            IN  /\ agent' = i.agent
                /\ input' = i.input
                /\ prompt' = i.prompts[Len(i.prompts)]
                /\ response' = i.outcome.response
                /\ exc' = i.outcome.exc
                /\ intermediate_steps' = i.outcome.intermediate_steps
                /\ iterations' = i.outcome.iterations
                /\ calls' = Len(i.prompts)
                /\ phase' = i.outcome.phase
    /\ UNCHANGED <<given, requested, behaviour, idx, tool_list, successful_tools,
                   failed_tools, log, returned, turns, last_run, text, parsed,
                   use_memory, completed, cli, md, env>>

MoreRuns == session_state.script_runs < MaxScriptRuns

\* session_state as a run of the script finds it: the page is drawn anew.
at_start == [session_state EXCEPT !.shown = "nothing"]

\* A button of the sidebar is pressed: the page is set and then shown.
sidebar_button ==
    /\ MoreRuns
    /\ \E p \in Pages :
       \E c \in ExampleCreations(session_state),
          script \in ExampleScripts(session_state) :
          script_run(main([at_start EXCEPT !.page = p], <<>>, c, script, script))

\* The user sends a query on the Home page.
chat_input ==
    /\ MoreRuns
    /\ session_state.page = "Home"
    /\ \E inp \in UserInputs, script2 \in ModelScripts :
       \E c \in ExampleCreations(session_state),
          script \in ExampleScripts(session_state) :
          script_run(main(at_start, <<inp>>, c, script, script2))

\* The user changes the Use Memory checkbox of the Settings page.
use_memory_checkbox ==
    /\ MoreRuns
    /\ session_state.page = "Settings"
    /\ script_run(Run([at_start EXCEPT !.use_memory = ~@], FALSE, <<>>))

\* The user presses Save Settings.
save_settings_button ==
    /\ MoreRuns
    /\ session_state.page = "Settings"
    /\ \E c \in Creations :
          script_run(Run(save_settings(at_start, c, session_state.use_memory),
                         FALSE, <<>>))

\* The user presses "Try this example!" of an example of the Examples page.
try_example_button ==
    /\ MoreRuns
    /\ session_state.page = "Examples"
    /\ \E e \in ExampleInputs :
          script_run(Run(try_example(examples_page(at_start), e), FALSE, <<>>))

\* Any other interaction: the script runs again and shows the page.
rerun ==
    /\ MoreRuns
    /\ \E c \in ExampleCreations(session_state),
          script \in ExampleScripts(session_state) :
          script_run(main(at_start, <<>>, c, script, script))

NextApp ==
    \/ sidebar_button
    \/ chat_input
    \/ use_memory_checkbox
    \/ save_settings_button
    \/ try_example_button
    \/ rerun

SpecApp == InitApp /\ [][NextApp]_vars

(***************************************************************************)
(* Helpers of the properties                                               *)
(***************************************************************************)
Built == phase \notin {"new", "build_raised", "parse", "parsed"}

\* The positions of the request that gave an active tool, and the others.
Loaded(n) == requested[n] \in TOOL_FACTORY /\ behaviour[n] = "ok"
NamesAt(Keep(_)) ==
    LET F[n \in 0..Len(requested)] ==
            IF n = 0 THEN <<>>
            ELSE IF Keep(n) THEN Append(F[n - 1], requested[n]) ELSE F[n - 1]
    IN  F[Len(requested)]
NotLoaded(n) == ~Loaded(n)

LastStep == intermediate_steps[Len(intermediate_steps)]

\* C1: building the registry never raises and handles every requested name,
\* whatever fails on the way: once __init__ is over, no exception has left it
\* and every position of the request has ended in successful_tools or in
\* failed_tools.
BuildNeverAborts ==
    /\ phase # "build_raised"
    /\ phase # "new" =>
          /\ Len(successful_tools) + Len(failed_tools) = Len(requested)
          /\ \A n \in 1..Len(requested) :
                \/ \E m \in 1..Len(tool_list) : tool_list[m].id = n
                \/ \E m \in 1..Len(failed_tools) : failed_tools[m] = requested[n]

\* A failing name was followed by a name that loaded.
BuildWentOnAfterFailure ==
    /\ phase = "built"
    /\ \E n \in 1..Len(requested) : \E m \in 1..Len(tool_list) :
          /\ ~Loaded(n)
          /\ tool_list[m].id > n

Reason(n) ==
    CASE requested[n] \notin TOOL_FACTORY          -> "UnknownTool"
      [] behaviour[n] = "requirements_not_met"     -> "RequirementsNotMet"
      [] OTHER                                     -> "ConstructionError"
FailedNames == {requested[n] : n \in {k \in 1..Len(requested) : ~Loaded(k)}}
ExpectedFailures ==
    [name \in FailedNames |->
        Reason(CHOOSE n \in 1..Len(requested) : requested[n] = name /\ ~Loaded(n))]

ParseNeverRaises ==
    phase = "parsed" =>
        /\ parsed # AttributeError
        /\ (\/ json_loads(extract_clean_json(text)) = JSONDecodeError
            \/ json_loads(extract_clean_json(text)).j # "obj")
           => parsed = AgentFinish(RawOutput(text), text)

\* The text decodes to an object with the two keys.
IsTwoKeyObject(txt) ==
    LET p == json_loads(extract_clean_json(txt))
    IN  /\ p # JSONDecodeError
        /\ p.j = "obj"
        /\ p.action # Absent
        /\ p.action_input # Absent

\* C5 as claimed: for a text that does not decode to the two-key object,
\* parse answers the fail-open result whose text is the input verbatim.
MalformedKeepsRawText ==
    (phase = "parsed" /\ ~IsTwoKeyObject(text)) =>
        parsed = AgentFinish(RawOutput(text), text)

\* The action of a parse result, apart from the log.
SameAction(a, b) ==
    /\ a # AttributeError
    /\ b # AttributeError
    /\ a.variant = b.variant
    /\ a.variant = "AgentFinish" => a.output = b.output
    /\ a.variant = "AgentAction" => a.tool = b.tool /\ a.tool_input = b.tool_input

\* The text is one well-formed action object between two wrappers made of
\* fences, json tags and whitespace.
BlobPositions(txt) == {n \in 1..Len(txt) : txt[n].t = "blob"}
IsWrappedObject(txt) ==
    /\ Cardinality(BlobPositions(txt)) = 1
    /\ \A n \in 1..Len(txt) : n \in BlobPositions(txt) \/ txt[n] \in WrapChunks
    /\ \A n \in BlobPositions(txt) : txt[n].v \in WellFormedObjects
Unwrapped(txt) == <<txt[CHOOSE n \in BlobPositions(txt) : TRUE]>>

\* C6: a well-formed action object wrapped in fences, json tags and
\* whitespace parses to the same action as the object alone.
WrappingIsIgnored ==
    (phase = "parsed" /\ IsWrappedObject(text)) =>
        SameAction(parsed, parse(Unwrapped(text)))

\* A fenced final answer has been parsed to its text.
FencedFinalAnswerParsed ==
    /\ phase = "parsed"
    /\ Len(text) > 2
    /\ text[1] = Chunk("fence") /\ text[2] = Chunk("json")
    /\ text[Len(text)] = Chunk("fence")
    /\ IsWrappedObject(text)
    /\ parsed # AttributeError
    /\ parsed.variant = "AgentFinish"
    /\ parsed.output = [kind |-> "str", chunks |-> <<"done">>]

\* C7: a turn makes at most max_iterations passes: the counter never exceeds
\* the limit, the model is asked again only below the limit, and at the
\* limit the turn is over with an answer.
LoopStopsAtCap ==
    /\ iterations <= max_iterations
    /\ Len(intermediate_steps) = iterations
    /\ phase = "thinking" => iterations < max_iterations
    /\ iterations = max_iterations =>
          /\ phase = "returned"
          /\ response # None
          /\ response.output.kind = "str"

\* The model asked for a tool that succeeded in every pass up to the limit.
StoppedAtCapAfterToolCalls ==
    /\ phase = "returned"
    /\ iterations = max_iterations
    /\ \A n \in 1..Len(intermediate_steps) :
          intermediate_steps[n].observation.kind = "result"

\* C8 as claimed: at the limit the answer is made from the last observation
\* and is not a fixed message.
CapAnswerFromLastObservation ==
    (phase = "returned" /\ iterations = max_iterations) =>
        /\ exc = None
        /\ response.output # ForceStopOutput
        /\ "observation" \in DOMAIN response.output
        /\ response.output.observation = LastStep.observation

\* C8 as amended: at the limit the answer is the fixed message of the
\* executor, whatever the last observation was, and nothing is raised.
CapAnswerIsFixedMessage ==
    (Built /\ iterations = max_iterations) =>
        /\ phase = "returned"
        /\ exc = None
        /\ response = [output |-> ForceStopOutput]

\* The limit was reached with a result of a tool as the last observation.
StoppedAtCapWithResult ==
    /\ phase = "returned"
    /\ iterations = max_iterations
    /\ LastStep.observation.kind = "result"
    /\ response.output = ForceStopOutput

ToolRaised == last_run # None /\ last_run.run = "raises"

InvokeAlwaysReturns ==
    /\ phase # "raised"
    /\ phase = "returned" =>
          /\ exc = None
          /\ response # None
          /\ response.output.kind \in {"str", "raw", "json.dumps"}

\* The last pass parsed a tool call whose name is not the name of a tool of
\* the executor.
UnknownToolCall ==
    /\ Built
    /\ parsed # None
    /\ parsed # AttributeError
    /\ parsed.variant = "AgentAction"
    /\ parsed.tool \notin ToolNames(agent.tools)

CharAt(cs, i) == IF i \in 1..Len(cs) THEN cs[i] ELSE "end"

RECURSIVE SkipSpace(_, _)
SkipSpace(cs, i) ==
    IF CharAt(cs, i) \in {"ws", "nl"} THEN SkipSpace(cs, i + 1) ELSE i

\* Reads a string literal whose opening quote is before position i.
RECURSIVE ReadString(_, _, _)
ReadString(cs, i, acc) ==
    CASE CharAt(cs, i) = "end"   -> [ok |-> FALSE]
      [] CharAt(cs, i) = "quote" -> [ok |-> TRUE, s |-> acc, next |-> i + 1]
      [] CharAt(cs, i) = "backslash" ->
            (CASE CharAt(cs, i + 1) = "quote" ->
                      ReadString(cs, i + 2, Append(acc, "quote"))
               [] CharAt(cs, i + 1) = "backslash" ->
                      ReadString(cs, i + 2, Append(acc, "backslash"))
               [] CharAt(cs, i + 1) = "u00e9" ->
                      ReadString(cs, i + 2, Append(acc, "e-acute"))
               [] OTHER -> [ok |-> FALSE])
      [] OTHER -> ReadString(cs, i + 1, Append(acc, cs[i]))

\* Reads the literal that starts at position i and the closing bracket.
ReadItem(cs, i, closing, make(_)) ==
    IF CharAt(cs, i) # "quote" THEN JSONDecodeError
    ELSE LET r == ReadString(cs, i + 1, <<>>)
         IN  IF ~r.ok THEN JSONDecodeError
             ELSE IF /\ CharAt(cs, SkipSpace(cs, r.next)) = closing
                     /\ SkipSpace(cs, SkipSpace(cs, r.next) + 1) > Len(cs)
             THEN make(r.s)
             ELSE JSONDecodeError

ReadKey(cs, i) ==
    /\ CharAt(cs, i) = "quote"
    /\ CharAt(cs, i + 1) = "k"
    /\ CharAt(cs, i + 2) = "quote"
    /\ CharAt(cs, SkipSpace(cs, i + 3)) = ":"

decode_again(cs) ==
    LET i == SkipSpace(cs, 1)
        j == SkipSpace(cs, i + 1)
    IN  CASE CharAt(cs, i) = "[" -> ReadItem(cs, j, "]", JList)
          [] CharAt(cs, i) = "{" /\ ReadKey(cs, j) ->
                ReadItem(cs, SkipSpace(cs, SkipSpace(cs, j + 3) + 1), "}", JDict)
          [] OTHER -> JSONDecodeError

\* The object the text decodes to is a final answer.
Decoded(txt) == json_loads(extract_clean_json(txt))
IsFinalAnswer(txt) ==
    /\ Decoded(txt) # JSONDecodeError
    /\ Decoded(txt).j = "obj"
    /\ Decoded(txt).action = JStr(<<"Final Answer">>)

\* C12: for a decoded Final Answer whose action_input is a mapping or a
\* sequence, the final text is a string of characters that decodes again to
\* that action_input; for a scalar action_input it is the string form of the
\* scalar.  In both cases the output is characters, never the value itself.
FinalAnswerRoundTrips ==
    (phase = "parsed" /\ IsFinalAnswer(text)) =>
        /\ parsed # AttributeError
        /\ parsed.variant = "AgentFinish"
        /\ DOMAIN parsed.output = {"kind", "chunks"}
        /\ IF IsStructured(Decoded(text).action_input)
           THEN /\ parsed.output.kind = "json.dumps"
                /\ decode_again(parsed.output.chunks) = Decoded(text).action_input
           ELSE parsed.output = [kind |-> "str", chunks |-> PyStr(Decoded(text).action_input)]

\* A fenced Final Answer whose action_input is a list holding a string with
\* a quote and a character outside ASCII has been parsed.
FinalAnswerWithQuotedList ==
    /\ phase = "parsed"
    /\ IsFinalAnswer(text)
    /\ text[1] = Chunk("fence")
    /\ Decoded(text).action_input = JList(<<"a", "quote", "ws", "e-acute">>)
    /\ parsed.output.chunks =
          <<"[", "nl", "ws", "ws", "quote", "a", "backslash", "quote", "ws",
            "backslash", "u00e9", "quote", "nl", "]">>

IsObject(txt) == Decoded(txt) # JSONDecodeError /\ Decoded(txt).j = "obj"

FirstBlob(txt) == CHOOSE n \in BlobPositions(txt) : \A m \in BlobPositions(txt) : n <= m
SeveralActionBlobs(txt) ==
    /\ Cardinality(BlobPositions(txt)) >= 2
    /\ \A n \in BlobPositions(txt) :
          txt[n].v.j = "obj" /\ txt[n].v.action # Absent /\ txt[n].v.action_input # Absent

Messages(ts) ==
    [n \in 1..(2 * Len(ts)) |->
        IF n % 2 = 1 THEN HumanMessage(ts[(n + 1) \div 2].input)
        ELSE AIMessage(ts[n \div 2].output)]

\* The turns that had returned when the model was last called.
CompletedAtLastCall ==
    IF phase = "returned" /\ completed # <<>>
    THEN SubSeq(completed, 1, Len(completed) - 1)
    ELSE completed

\* C15: with use_memory false the agent has no memory, no turn is stored
\* and the chat history of every prompt is empty, however many turns have
\* returned.
DisabledMemoryStaysEmpty ==
    (~use_memory /\ agent # None) =>
        /\ agent.memory = None
        /\ chat_history(agent) = <<>>
        /\ prompt # None => prompt.chat_history = <<>>

\* Without memory, the model is called in a turn that follows a turn that
\* returned.
SecondTurnWithoutMemory ==
    /\ ~use_memory
    /\ Len(completed) = 1
    /\ phase = "thinking"
    /\ prompt # None
    /\ prompt.chat_history = <<>>

\* C16: with use_memory true the memory of the agent is the messages of the
\* turns that returned, in the order they returned, each turn once per time
\* it happened; the chat history of a prompt is the messages of the turns
\* that had returned when the turn of the prompt began.
MemoryIsAppendOnly ==
    (use_memory /\ agent # None) =>
        /\ agent.memory = Messages(completed)
        /\ chat_history(agent) = Messages(completed)
        /\ prompt # None => prompt.chat_history = Messages(CompletedAtLastCall)

\* Two identical turns returned and both are in the memory.
TwoIdenticalTurnsKept ==
    /\ use_memory
    /\ Len(completed) = 2
    /\ completed[1] = completed[2]
    /\ Len(agent.memory) = 4
    /\ prompt.chat_history = <<agent.memory[1], agent.memory[2]>>

ToolListNames == [m \in 1..Len(tool_list) |-> tool_list[m].name]

\* C17: the tools of the list come from the positions of the request that
\* loaded, each once, and stand in the order of these positions; with no
\* names given the request is the catalog in the order of its keys.
ToolsKeepRequestOrder ==
    Built =>
        /\ ~given => requested = TOOL_FACTORY_keys
        /\ \A m \in 1..Len(tool_list) :
              /\ tool_list[m].id \in 1..Len(requested)
              /\ Loaded(tool_list[m].id)
              /\ tool_list[m].name = requested[tool_list[m].id]
        /\ \A n \in 1..Len(requested) :
              Loaded(n) => \E m \in 1..Len(tool_list) : tool_list[m].id = n
        /\ \A m1, m2 \in 1..Len(tool_list) :
              m1 < m2 => tool_list[m1].id < tool_list[m2].id

\* With no names given and five classes not ready, the three tools that
\* loaded stand in catalog order, which is not the alphabetical one.
DefaultRequestKeepsCatalogOrder ==
    /\ Built
    /\ ~given
    /\ ToolListNames = <<"GetElementsOfReaction", "Blastp", "DownloadPDBStructure">>

\* The classes of the catalog that inherit the readiness check of the base
\* class.
InheritsDefaultCheck == {"GetElementsOfReaction"}

\* C18: a request never makes the build raise; a request of one catalog name
\* gives an empty tool list or the one tool of that name; every tool of the
\* list has a requested name; and a requested class with the inherited
\* readiness check is in the list.
SingleNameBuildIsSafe ==
    /\ phase # "build_raised"
    /\ Built =>
          /\ (given /\ Len(requested) = 1 /\ requested[1] \in TOOL_FACTORY) =>
                \/ tool_list = <<>>
                \/ ToolListNames = requested
          /\ \A m \in 1..Len(tool_list) :
                \E n \in 1..Len(requested) : tool_list[m].name = requested[n]
          /\ \A n \in 1..Len(requested) :
                requested[n] \in InheritsDefaultCheck =>
                    \E m \in 1..Len(tool_list) :
                        tool_list[m].id = n /\ tool_list[m].name = requested[n]

\* The request of the one name GetElementsOfReaction has been built.
DefaultCheckToolLoadedAlone ==
    /\ Built
    /\ given
    /\ requested = <<"GetElementsOfReaction">>
    /\ ToolListNames = <<"GetElementsOfReaction">>
    /\ failed_tools = <<>>

\* C19: once the build is over, no call of the session changes the tool
\* list or what the build recorded: the getters and initiate_agent, called
\* any number of times, and the turns of the agent leave tool_list,
\* successful_tools, failed_tools and the log as they are (no class is tried
\* again), the agent is made from that list, and get_supported_tools keeps
\* answering the whole catalog.
ToolListFrozenAfterBuild ==
    /\ [][Built =>
             /\ tool_list' = tool_list
             /\ successful_tools' = successful_tools
             /\ failed_tools' = failed_tools
             /\ log' = log
             /\ idx' = idx]_vars
    /\ []((Built /\ agent # None) => agent.tools = tool_list)
    /\ []((returned # None /\ returned.call = "get_supported_tools") =>
              returned.value = {TOOL_FACTORY_keys[n] : n \in 1..Len(TOOL_FACTORY_keys)})

\* In a session whose build left a catalog class out, initiate_agent has
\* been called again after a turn and the tool list has been read.
SecondAgentFromSameList ==
    /\ phase = "returned"
    /\ agent # None
    /\ completed = <<>>
    /\ returned # None
    /\ returned.call = "get_available_tools"
    /\ returned.value = tool_list
    /\ agent.tools = tool_list
    /\ tool_list # <<>>
    /\ \E n \in 1..Len(requested) :
          requested[n] \in TOOL_FACTORY /\ behaviour[n] = "requirements_not_met"

\* C20: in a turn the scratchpad given to the k-th call of the model is made
\* of the first k-1 pairs of the turn, in the order they were executed, so it
\* is empty at the first call of every turn; the counter of iterations is the
\* number of pairs; and a pass adds at most one pair, at the end, and one to
\* the counter with it.
ScratchpadIsThePairsSoFar ==
    /\ [](/\ Len(intermediate_steps) = iterations
          /\ phase = "thinking" => calls = iterations
          /\ (prompt # None /\ calls > 0) =>
                /\ iterations \in {calls - 1, calls}
                /\ prompt.agent_scratchpad =
                      format_log_to_str(SubSeq(intermediate_steps, 1, calls - 1))
                /\ Len(prompt.agent_scratchpad) = calls - 1)
    /\ [][\/ /\ calls' = 0
              /\ intermediate_steps' = <<>>
              /\ iterations' = 0
           \/ /\ calls' = calls
              /\ intermediate_steps' = intermediate_steps
              /\ iterations' = iterations
           \/ /\ calls' = calls + 1
              /\ \/ /\ intermediate_steps' = intermediate_steps
                    /\ iterations' = iterations
                 \/ /\ Len(intermediate_steps') = Len(intermediate_steps) + 1
                    /\ SubSeq(intermediate_steps', 1, Len(intermediate_steps))
                          = intermediate_steps
                    /\ iterations' = iterations + 1]_vars

\* The first call of the model in the turn that follows a turn of five
\* pairs was given an empty scratchpad.
SecondTurnStartsEmpty ==
    /\ turns = 2
    /\ completed # <<>>
    /\ completed[1].output = ForceStopOutput
    /\ calls = 1
    /\ prompt # None
    /\ prompt.agent_scratchpad = <<>>

\* The agent that serves the queries of the app's session.
SessionAgent == session_state.objects[session_state.agent]

\* The prompt names the tools of executor ag and lists Final Answer and
\* these names as the valid actions.
ShowsToolsOf(p, ag) ==
    /\ p.tool_names = [n \in 1..Len(ag.tools) |-> ag.tools[n].name]
    /\ p.valid_actions = <<"Final Answer">> \o p.tool_names

\* C21: every prompt an agent gives the model names exactly Final Answer
\* and the tools of that agent, in the order of its tool list; this holds
\* for the agent of the session whatever agents were made before it, and
\* for the prompt of the last call of the model that was made.
PromptShowsToolsOfItsAgent ==
    /\ \A inp \in UserInputs, script \in ModelScripts :
          LET r == AgentExecutor_invoke(SessionAgent, inp, script)
          IN  \A n \in 1..Len(r.prompts) : ShowsToolsOf(r.prompts[n], SessionAgent)
    /\ prompt # None => ShowsToolsOf(prompt, agent)

\* Save Settings has replaced the first agent by one with other tools, and
\* the new agent has been asked a query that took a second call of the model.
PromptAfterReconfiguration ==
    /\ session_state.agent > 1
    /\ tool_names(SessionAgent.tools) # tool_names(session_state.objects[1].tools)
    /\ prompt # None
    /\ agent = SessionAgent
    /\ agent.memory # None
    /\ calls > 1
    /\ prompt.tool_names = tool_names(SessionAgent.tools)

\* The string of the value holds the word json or a fence.
HoldsWrapperText(v) ==
    HasString(v) /\ \E n \in 1..Len(v.s) : v.s[n] \in {"json", "fence"}

\* C22: for a well-formed action object whose action or action_input holds
\* the word json or a fence, parse gives the action that the object itself
\* holds: the strings are the ones of the object, unchanged by the cleaning.
CleaningKeepsValues ==
    (/\ phase = "parsed"
     /\ IsWrappedObject(text)
     /\ \/ HoldsWrapperText(Unwrapped(text)[1].v.action)
        \/ HoldsWrapperText(Unwrapped(text)[1].v.action_input))
    => SameAction(parsed, from_object(Unwrapped(text)[1].v, text))

\* C23: a readiness check that raises does not leave the build: the class
\* gives no active tool, its name is among the failed ones, and the names
\* requested after it are still tried, so that the ready ones are loaded.
RaisingCheckIsContained ==
    /\ phase # "build_raised"
    /\ Built =>
          \A n \in 1..Len(requested) :
             behaviour[n] = "check_raises" =>
                /\ \A m \in 1..Len(tool_list) : tool_list[m].id # n
                /\ \E m \in 1..Len(failed_tools) : failed_tools[m] = requested[n]
                /\ \A k \in (n + 1)..Len(requested) :
                      Loaded(k) => \E m \in 1..Len(tool_list) : tool_list[m].id = k

\* The check of MDSimulation raised and the name after it was loaded.
RaisingCheckThenLoadedTool ==
    /\ phase = "built"
    /\ Len(requested) = 2
    /\ requested[1] = "MDSimulation" /\ behaviour[1] = "check_raises"
    /\ Loaded(2)
    /\ Len(tool_list) = 1 /\ tool_list[1].id = 2
    /\ failed_tools = <<"MDSimulation">>

\* C24: the names of the active tools are pairwise distinct, whatever names
\* were requested and however often.
ActiveNamesAreDistinct ==
    \A m, k \in 1..Len(tool_list) :
       tool_list[m].name = tool_list[k].name => m = k

\* C25: the check of Mutagenesis answers True exactly when the three
\* directories exist afterwards and PyMOL can be imported, and the class
\* gives a tool only then.
MutagenesisCheckIsStrict ==
    phase = "instantiated" =>
       /\ returned.check <=> (/\ \A i \in 1..3 : env.paths[i] = "exists"
                             /\ env.pymol)
       /\ returned.value # None <=> returned.check

\* Stage nd was started and completed before the n-th started stage.
CompletedBefore(nd, n) ==
    \E m \in 1..(n - 1) :
       md.started[m].stage_name = nd /\ md.started[m].result = "completed"

\* C26: in a run of MDSimulation, whatever the stages argument, nvt starts
\* only after minimization has completed and npt only after nvt has
\* completed; the first stage gets the protein-only PDB and every later
\* stage the output of the stage before it.
StagesRunInPhysicalOrder ==
    \A n \in 1..Len(md.started) :
       /\ md.started[n].stage_name = "nvt" => CompletedBefore("minimization", n)
       /\ md.started[n].stage_name = "npt" => CompletedBefore("nvt", n)
       /\ md.started[n].input_file =
             IF n = 1 THEN ProteinOnlyPDB
             ELSE StageOutput(md.started[n - 1].stage_name)

\* C27: a run of the script that shows the Home page while an example is
\* waiting, and in which the user sends no query, leaves the example done:
\* executing_example is false, current_example is None, use_memory is what
\* it was before try_example, and the agents of the session are as they
\* were.
ExampleRunsOnceAndRestores ==
    [][(/\ session_state.executing_example
        /\ session_state'.page = "Home"
        /\ Len(session_state'.messages) <= Len(session_state.messages) + 1)
       => /\ ~session_state'.executing_example
          /\ session_state'.current_example = None
          /\ session_state'.use_memory = session_state.previous_memory_state[1]
          /\ session_state'.objects = session_state.objects]_vars

\* The agent of the current session in the table of sessions.
SessionTableAgent == session_state.sessions[session_state.current_session].agent

\* C28: st.session_state.agent and the agent of the current session in
\* sessions always denote the same agent; they change only in a run that
\* made a new agent, and then both denote the new one, so that after a Save
\* Settings whose creation raised the agent that served before serves on.
SaveSettingsIsAllOrNothing ==
    /\ [](SessionTableAgent = session_state.agent)
    /\ [][/\ Len(session_state'.objects) = Len(session_state.objects)
             => /\ session_state'.agent = session_state.agent
                /\ session_state'.sessions = session_state.sessions
          /\ Len(session_state'.objects) > Len(session_state.objects)
             => /\ session_state'.shown = "success"
                /\ session_state'.agent = Len(session_state'.objects)
                /\ session_state'.sessions[session_state'.current_session].agent
                      = Len(session_state'.objects)
          /\ session_state'.shown = "error"
             => session_state'.objects = session_state.objects]_vars

\* Save Settings has just failed in a session whose first agent had
\* answered a query: the agent is still the first one, with its memory.
FailedSaveKeepsAgent ==
    /\ session_state.shown = "error"
    /\ session_state.page = "Settings"
    /\ session_state.agent = 1
    /\ SessionTableAgent = 1
    /\ Len(session_state.objects) = 1
    /\ SessionAgent.memory # <<>>

\* The lines that are left when get_verbosity and get_model_and_provider
\* have read theirs.
RECURSIVE AfterVerbosity(_)
AfterVerbosity(ls) ==
    IF ls = <<>> THEN <<>>
    ELSE IF lower(Head(ls)) \in {"", "t", "f"} THEN Tail(ls)
    ELSE AfterVerbosity(Tail(ls))

AfterSetup(ls) ==
    IF AfterVerbosity(ls) = <<>> THEN <<>> ELSE Tail(AfterVerbosity(ls))

\* The lines typed at the question prompt before the first exit.
RECURSIVE UntilExit(_)
UntilExit(ls) ==
    IF ls = <<>> \/ lower(Head(ls)) = "exit" THEN <<>>
    ELSE <<Head(ls)>> \o UntilExit(Tail(ls))

Questions(ls) ==
    SelectSeq(UntilExit(AfterSetup(ls)), LAMBDA l : lower(l) \notin {"help", "clear"})

\* C29: when main is over, the lines typed at the question prompt that are
\* not exit, help or clear have each been sent to the agent once, in order,
\* and nothing else has; main ends by exit or at the end of the input, never
\* by an exception of its own.
QuestionsAreForwardedOnce ==
    (cli.pc = "ended" /\ cli.argv = "") =>
        /\ cli.forwarded = Questions(cli.lines)
        /\ cli.exc \in {None, [raise |-> "EOFError"]}

\* C30: once the verbosity and the model/provider prompt have been
\* answered, main builds the assistant and reaches the interaction loop
\* with "Assistant initialized"; it does not end in an exception.
SetupReachesTheLoop ==
    cli.settings # None =>
        /\ cli.exc = None
        /\ cli.pc \in {"initializing", "loop"}
        /\ cli.pc = "loop" =>
              cli.output[Len(cli.output)] = "Assistant initialized"
====
